---- MODULE Spec2Model ----
(***************************************************************************)
(* Early stopping handlers of small_text/training/early_stopping.py:       *)
(* EarlyStopping, NoopEarlyStopping and SequentialEarlyStopping.           *)
(*                                                                         *)
(* Measured values are real numbers in the source; here they are integers  *)
(* (a fixed-point grid), so differences, signs and comparisons are exact.  *)
(* A python object is a record, a dict is a function on a set of keys, a   *)
(* numpy structured array is a sequence of records.  Python indices are    *)
(* 0-based, sequences here are 1-based: python index i is position i + 1.  *)
(***************************************************************************)
EXTENDS Integers, Sequences, FiniteSets, TLC

VARIABLES es, epoch, measured_values, ret, calls, es2, ret2, handler, handler_ret, args

vars == <<es, epoch, measured_values, ret, calls, es2, ret2, handler, handler_ret, args>>

----------------------------------------------------------------------------
(* Bounds of the model. *)

\* checks made on one EarlyStopping object
MaxChecks == 4
\* measured values are 0..MaxVal
MaxVal == 2
\* patience is 1..MaxPatience
MaxPatience == 1

\* checks made on one composite handler
MaxSeqChecks == 2

\* checks made on each of two EarlyStopping objects fed side by side
MaxPairChecks == 3

\* checks made on one EarlyStopping object that is checked on after it stopped
MaxPersistChecks == 5

\* the grid point that stands for 1.0
One == 2

MinDeltas == {0, 2}
Thresholds == {0 - 1, 0, 1}
Epochs == {0 - 1, 0, 1}

----------------------------------------------------------------------------
(* Python and numpy values. *)

None == 0 - 1000
NaN == 0 - 2000

Monitors == {"train_acc", "train_loss", "val_acc", "val_loss"}

Values == 0..MaxVal

\* dict.get(key, default)
get(d, key, default) == IF key \in DOMAIN d THEN d[key] ELSE default

\* the dicts with keys among `keys`, each value a number or None
Dicts(keys) == UNION {[S -> Values \cup {None}] : S \in SUBSET keys}

\* conversion of a python value to a float field of the structured array
to_float(x) == IF x = None THEN NaN ELSE x

\* float subtraction
fsub(a, b) == IF a = NaN \/ b = NaN THEN NaN ELSE a - b

\* np.sign
sign(x) == IF x = NaN THEN NaN ELSE IF x > 0 THEN 1 ELSE IF x < 0 THEN 0 - 1 ELSE 0

\* np.abs
abs(x) == IF x = NaN THEN NaN ELSE IF x < 0 THEN 0 - x ELSE x

\* float >= (false when either side is NaN)
fge(a, b) == a # NaN /\ b # NaN /\ a >= b

\* a[i] for a python index i (negative indices count from the end)
item(a, i) == IF i < 0 THEN a[Len(a) + i + 1] ELSE a[i + 1]

\* a[start:]
slice_from(a, start) ==
    LET s == IF start < 0
             THEN (IF Len(a) + start < 0 THEN 0 ELSE Len(a) + start)
             ELSE start
    IN SubSeq(a, s + 1, Len(a))

\* mutant of count_not_nan: only the rows after the last missing value count
count_not_nan_trailing(rows, name) ==
    Cardinality({i \in 1..Len(rows) : \A j \in i..Len(rows) : rows[j][name] # NaN})

\* mutant of count_not_nan: a row counts when any of its metrics is present
count_not_nan_any_column(rows, name) ==
    Cardinality({i \in 1..Len(rows) : \E k \in Monitors : rows[i][k] # NaN})

\* np.isnan, np.logical_not and sum over the column `name` of the rows
count_not_nan(rows, name) == Cardinality({i \in 1..Len(rows) : rows[i][name] # NaN})

\* '_acc' in monitor
contains_acc(monitor) == monitor \in {"train_acc", "val_acc"}

----------------------------------------------------------------------------
(* class EarlyStopping *)

\* mutant of _validate_arguments: the threshold interval is required of every
\* monitor
_validate_arguments_any_monitor(monitor, min_delta, patience, threshold) ==
    IF monitor \notin Monitors THEN "ValueError"
    ELSE IF min_delta < 0 THEN "ValueError"
    ELSE IF patience <= 0 THEN "ValueError"
    ELSE IF threshold < 0 \/ threshold > One THEN "ValueError"
    ELSE "ok"

_validate_arguments(monitor, min_delta, patience, threshold) ==
    IF monitor \notin Monitors THEN "ValueError"
    ELSE IF min_delta < 0 THEN "ValueError"
    ELSE IF patience <= 0 THEN "ValueError"
    ELSE IF contains_acc(monitor) /\ (threshold < 0 \/ threshold > One) THEN "ValueError"
    ELSE "ok"

\* EarlyStopping.__init__ after the validation
EarlyStopping(monitor, min_delta, patience, threshold) ==
    [kind |-> "EarlyStopping",
     monitor |-> monitor,
     min_delta |-> min_delta,
     patience |-> patience,
     threshold |-> threshold,
     index_best |-> 0 - 1,
     history |-> << >>]

\* mutant of add_to_history: count is the number of rows, whatever their epoch
add_to_history_count_rows(self, e, mv) ==
    Append(self.history,
           [epoch |-> e,
            count |-> Len(self.history),
            train_acc |-> to_float(get(mv, "train_acc", None)),
            train_loss |-> to_float(get(mv, "train_loss", None)),
            val_acc |-> to_float(get(mv, "val_acc", None)),
            val_loss |-> to_float(get(mv, "val_loss", None))])

\* mutant of add_to_history: a call without any recognised metric adds no row
add_to_history_skip_empty(self, e, mv) ==
    IF \A k \in Monitors : get(mv, k, None) = None
    THEN self.history
    ELSE Append(self.history,
                [epoch |-> e,
                 count |-> Cardinality({i \in 1..Len(self.history) : self.history[i].epoch = e}),
                 train_acc |-> to_float(get(mv, "train_acc", None)),
                 train_loss |-> to_float(get(mv, "train_loss", None)),
                 val_acc |-> to_float(get(mv, "val_acc", None)),
                 val_loss |-> to_float(get(mv, "val_loss", None))])

add_to_history(self, e, mv) ==
    LET count == Cardinality({i \in 1..Len(self.history) : self.history[i].epoch = e})
    IN Append(self.history,
              [epoch |-> e,
               count |-> count,
               train_acc |-> to_float(get(mv, "train_acc", None)),
               train_loss |-> to_float(get(mv, "train_loss", None)),
               val_acc |-> to_float(get(mv, "val_acc", None)),
               val_loss |-> to_float(get(mv, "val_loss", None))])

\* mutant of is_improvement: min_delta is ignored
is_improvement_any_delta(delta, min_delta, monitor_sign) == sign(delta) = monitor_sign

\* lines 147-150: is the change `delta` an improvement
is_improvement(delta, min_delta, monitor_sign) ==
    IF min_delta > 0
    THEN sign(delta) = monitor_sign /\ fge(abs(delta), min_delta)
    ELSE sign(delta) = monitor_sign

\* mutant of patience_exceeded: stops one observation early
patience_exceeded_early(rows_not_nan, patience) == rows_not_nan >= patience

\* line 158
patience_exceeded(rows_not_nan, patience) == rows_not_nan > patience

\* mutant of _check_for_improvement: without an improvement the best index
\* falls back to the first row
_check_for_improvement_reset(self, mv, monitor_sign) ==
    LET previous_best == item(self.history, self.index_best)[self.monitor]
        index_last == Len(self.history) - 1
        delta == fsub(mv[self.monitor], previous_best)
    IN IF is_improvement(delta, self.min_delta, monitor_sign)
       THEN [self |-> [self EXCEPT !.index_best = index_last], ret |-> "False"]
       ELSE [self |-> [self EXCEPT !.index_best = 0],
             ret |-> IF patience_exceeded(
                            count_not_nan(slice_from(self.history, self.index_best + 1),
                                          self.monitor), self.patience)
                     THEN "True" ELSE "False"]

_check_for_improvement(self, mv, monitor_sign) ==
    LET previous_best == item(self.history, self.index_best)[self.monitor]
        index_last == Len(self.history) - 1
        delta == fsub(mv[self.monitor], previous_best)
        improvement == is_improvement(delta, self.min_delta, monitor_sign)
    IN IF improvement
       THEN [self |-> [self EXCEPT !.index_best = index_last], ret |-> "False"]
       ELSE LET history_since_previous_best == slice_from(self.history, self.index_best + 1)
                rows_not_nan == count_not_nan(history_since_previous_best, self.monitor)
            IN IF patience_exceeded(rows_not_nan, self.patience)
               THEN [self |-> self, ret |-> "True"]
               ELSE [self |-> self, ret |-> "False"]

\* mutant of epoch_invalid: epoch 0 is accepted
epoch_invalid_negative(e) == e < 0

\* line 116
epoch_invalid(e) == e <= 0

\* mutant of monitored_value: a missing metric reads as 0
monitored_value_default_zero(mv, monitor) == get(mv, monitor, 0)

\* line 124
monitored_value(mv, monitor) == get(mv, monitor, None)

\* mutant of crossed_threshold: reaching the threshold counts as crossing it
crossed_threshold_or_equal(measured_value, threshold, monitor_sign) ==
    measured_value # None /\ sign(fsub(measured_value, threshold)) \in {0, monitor_sign}

\* lines 125-126
crossed_threshold(measured_value, threshold, monitor_sign) ==
    measured_value # None /\ sign(fsub(measured_value, threshold)) = monitor_sign

\* mutant of check_early_stop: the epoch is validated after the row is
\* appended
check_early_stop_append_first(self, e, mv) ==
    LET s == [self EXCEPT !.history = add_to_history(self, e, mv)]
        monitor_sign == IF contains_acc(s.monitor) THEN 1 ELSE 0 - 1
        measured_value == monitored_value(mv, s.monitor)
    IN IF epoch_invalid(e)
       THEN [self |-> s, ret |-> "ValueError"]
       ELSE IF s.threshold > 0 /\ crossed_threshold(measured_value, s.threshold, monitor_sign)
       THEN [self |-> s, ret |-> "True"]
       ELSE IF measured_value = None
       THEN [self |-> s, ret |-> "False"]
       ELSE IF Len(s.history) = 1
       THEN [self |-> [s EXCEPT !.index_best = 0], ret |-> "False"]
       ELSE _check_for_improvement(s, mv, monitor_sign)

check_early_stop(self, e, mv) ==
    IF epoch_invalid(e)
    THEN [self |-> self, ret |-> "ValueError"]
    ELSE LET s == [self EXCEPT !.history = add_to_history(self, e, mv)]
             greater_is_better == contains_acc(s.monitor)
             monitor_sign == IF greater_is_better THEN 1 ELSE 0 - 1
             measured_value == monitored_value(mv, s.monitor)
             has_crossed_threshold == crossed_threshold(measured_value, s.threshold, monitor_sign)
         IN IF s.threshold > 0 /\ has_crossed_threshold
            THEN [self |-> s, ret |-> "True"]
            ELSE IF measured_value = None
            THEN [self |-> s, ret |-> "False"]
            ELSE IF Len(s.history) = 1
            THEN [self |-> [s EXCEPT !.index_best = 0], ret |-> "False"]
            ELSE _check_for_improvement(s, mv, monitor_sign)

----------------------------------------------------------------------------
(* class NoopEarlyStopping, class SequentialEarlyStopping *)

NoopEarlyStopping == [kind |-> "NoopEarlyStopping"]

\* SequentialEarlyStopping.__init__
SequentialEarlyStopping(early_stopping_handlers) ==
    [kind |-> "SequentialEarlyStopping",
     early_stopping_handlers |-> early_stopping_handlers]

\* mutant of NoopEarlyStopping_check_early_stop: the epoch is validated
NoopEarlyStopping_check_early_stop_validating(self, e, mv) ==
    [self |-> self, ret |-> IF e <= 0 THEN "ValueError" ELSE "False"]

NoopEarlyStopping_check_early_stop(self, e, mv) == [self |-> self, ret |-> "False"]

\* mutant of any: np.all
any_all(results) == IF \A i \in 1..Len(results) : results[i] = "True" THEN "True" ELSE "False"

\* np.any
any(results) == IF \E i \in 1..Len(results) : results[i] = "True" THEN "True" ELSE "False"

RECURSIVE handler_check_early_stop(_, _, _)
RECURSIVE for_early_stopping_handler(_, _, _, _, _)
RECURSIVE for_early_stopping_handler_short_circuit(_, _, _, _, _)
RECURSIVE for_early_stopping_handler_catch(_, _, _, _, _)

\* mutant of for_early_stopping_handler: the loop ends at the first child that
\* returns True
for_early_stopping_handler_short_circuit(handlers, i, results, e, mv) ==
    IF i > Len(handlers)
    THEN [handlers |-> handlers, ret |-> any(results)]
    ELSE LET r == handler_check_early_stop(handlers[i], e, mv)
         IN IF r.ret = "ValueError"
            THEN [handlers |-> [handlers EXCEPT ![i] = r.self], ret |-> "ValueError"]
            ELSE IF r.ret = "True"
            THEN [handlers |-> [handlers EXCEPT ![i] = r.self], ret |-> "True"]
            ELSE for_early_stopping_handler_short_circuit(
                     [handlers EXCEPT ![i] = r.self], i + 1, Append(results, r.ret), e, mv)

\* mutant of for_early_stopping_handler: an error of a child is caught and
\* counts as False
for_early_stopping_handler_catch(handlers, i, results, e, mv) ==
    IF i > Len(handlers)
    THEN [handlers |-> handlers, ret |-> any(results)]
    ELSE LET r == handler_check_early_stop(handlers[i], e, mv)
         IN for_early_stopping_handler_catch(
                [handlers EXCEPT ![i] = r.self], i + 1,
                Append(results, IF r.ret = "ValueError" THEN "False" ELSE r.ret), e, mv)

\* the loop of lines 202-203 from child i on; an error of a child ends it
for_early_stopping_handler(handlers, i, results, e, mv) ==
    IF i > Len(handlers)
    THEN [handlers |-> handlers, ret |-> any(results)]
    ELSE LET r == handler_check_early_stop(handlers[i], e, mv)
         IN IF r.ret = "ValueError"
            THEN [handlers |-> [handlers EXCEPT ![i] = r.self], ret |-> "ValueError"]
            ELSE for_early_stopping_handler([handlers EXCEPT ![i] = r.self], i + 1,
                                            Append(results, r.ret), e, mv)

SequentialEarlyStopping_check_early_stop(self, e, mv) ==
    LET r == for_early_stopping_handler(self.early_stopping_handlers, 1, << >>, e, mv)
    IN [self |-> [self EXCEPT !.early_stopping_handlers = r.handlers], ret |-> r.ret]

\* the method call handler.check_early_stop(e, mv), by the class of handler
handler_check_early_stop(h, e, mv) ==
    CASE h.kind = "EarlyStopping" -> check_early_stop(h, e, mv)
      [] h.kind = "NoopEarlyStopping" -> NoopEarlyStopping_check_early_stop(h, e, mv)
      [] h.kind = "SequentialEarlyStopping" -> SequentialEarlyStopping_check_early_stop(h, e, mv)

----------------------------------------------------------------------------
(* One EarlyStopping object and its caller. *)

\* the configurations the constructor accepts, within the bounds
Configs ==
    {c \in [monitor : Monitors, min_delta : MinDeltas,
            patience : 1..MaxPatience, threshold : Thresholds] :
        _validate_arguments(c.monitor, c.min_delta, c.patience, c.threshold) = "ok"}

NoObject == [kind |-> "none"]

Init ==
    /\ es \in {EarlyStopping(c.monitor, c.min_delta, c.patience, c.threshold) : c \in Configs}
    /\ epoch = 0
    /\ measured_values = << >>
    /\ ret = "none"
    /\ calls = 0
    /\ es2 = NoObject
    /\ ret2 = "none"
    /\ handler = NoObject
    /\ handler_ret = "none"
    /\ args = NoObject

\* the caller invokes es.check_early_stop(e, mv)
Check(e, mv) ==
    LET r == check_early_stop(es, e, mv)
    IN /\ Len(es.history) < MaxChecks
       /\ es' = r.self
       /\ ret' = r.ret
       /\ epoch' = e
       /\ measured_values' = mv
       /\ calls' = IF r.ret = "ValueError" THEN calls ELSE calls + 1
       /\ UNCHANGED <<es2, ret2, handler, handler_ret, args>>

Next == \E e \in Epochs : \E mv \in Dicts({es.monitor}) : Check(e, mv)

Spec == Init /\ [][Next]_vars

----------------------------------------------------------------------------
(* The constructor EarlyStopping(monitor, min_delta, patience, threshold). *)

NewMonitors == Monitors \cup {"unknown_metric"}
NewMinDeltas == {0 - 1, 0, 1}
NewPatiences == {0 - 1, 0, 1, 2}
NewThresholds == {0 - 1, 0, 1, One, One + 1}

InitNew ==
    /\ es = NoObject
    /\ ret = "none"
    /\ args = NoObject
    /\ epoch = 0
    /\ measured_values = << >>
    /\ calls = 0
    /\ es2 = NoObject
    /\ ret2 = "none"
    /\ handler = NoObject
    /\ handler_ret = "none"

\* es = EarlyStopping(monitor, min_delta, patience, threshold): line 68 raises
\* or lines 70-81 build the object
New(monitor, min_delta, patience, threshold) ==
    LET v == _validate_arguments(monitor, min_delta, patience, threshold)
    IN /\ ret = "none"
       /\ args' = [monitor |-> monitor, min_delta |-> min_delta,
                   patience |-> patience, threshold |-> threshold]
       /\ ret' = v
       /\ es' = IF v = "ok"
                THEN EarlyStopping(monitor, min_delta, patience, threshold)
                ELSE NoObject
       /\ UNCHANGED <<epoch, measured_values, calls, es2, ret2, handler, handler_ret>>

NextNew ==
    \E m \in NewMonitors : \E d \in NewMinDeltas : \E p \in NewPatiences :
        \E t \in NewThresholds : New(m, d, p, t)

SpecNew == InitNew /\ [][NextNew]_vars

\* the conditions of the specification on the constructor arguments
ValidArguments(a) ==
    /\ a.monitor \in {"train_acc", "train_loss", "val_acc", "val_loss"}
    /\ a.min_delta >= 0
    /\ a.patience >= 1
    /\ (a.monitor \in {"train_acc", "val_acc"} => (0 <= a.threshold /\ a.threshold <= One))

----------------------------------------------------------------------------
(* One EarlyStopping object checked several times per epoch, with varying  *)
(* metrics.                                                                *)

CountEpochs == {1, 2}

CountDicts == UNION {[S -> {1}] : S \in SUBSET {"val_loss", "train_acc"}}

InitCount ==
    /\ es \in {EarlyStopping("val_loss", 0, 1, 0), EarlyStopping("train_acc", 0, 1, 0)}
    /\ epoch = 0
    /\ measured_values = << >>
    /\ ret = "none"
    /\ calls = 0
    /\ es2 = NoObject
    /\ ret2 = "none"
    /\ handler = NoObject
    /\ handler_ret = "none"
    /\ args = NoObject

NextCount == \E e \in CountEpochs : \E mv \in CountDicts : Check(e, mv)

SpecCount == InitCount /\ [][NextCount]_vars

\* C11: the count of every history row is the number of earlier rows with
\* the same epoch.
C11_DuplicateCount ==
    \A i \in 1..Len(es.history) :
        es.history[i].count =
            Cardinality({j \in 1..(i - 1) : es.history[j].epoch = es.history[i].epoch})

C11_Witness ==
    \E i \in 1..Len(es.history) : \E j \in 1..Len(es.history) : \E k \in 1..Len(es.history) :
        /\ i < j /\ j < k
        /\ es.history[i].epoch = es.history[k].epoch
        /\ es.history[j].epoch # es.history[i].epoch
        /\ es.history[i].count = 0
        /\ es.history[k].count = 1
        /\ es.history[i][es.monitor] # NaN
        /\ es.history[k][es.monitor] = NaN

----------------------------------------------------------------------------
(* Two EarlyStopping objects of one configuration: es gets every call, es2 *)
(* gets only the calls that carry the monitored metric.                    *)

InitNeutral ==
    /\ es \in {EarlyStopping(c.monitor, c.min_delta, c.patience, c.threshold) : c \in Configs}
    /\ es2 = es
    /\ epoch = 0
    /\ measured_values = << >>
    /\ ret = "none"
    /\ ret2 = "none"
    /\ calls = 0
    /\ handler = NoObject
    /\ handler_ret = "none"
    /\ args = NoObject

CheckNeutral(e, mv) ==
    LET r == check_early_stop(es, e, mv)
        r2 == check_early_stop(es2, e, mv)
    IN /\ Len(es.history) < MaxChecks
       /\ es' = r.self
       /\ ret' = r.ret
       /\ IF get(mv, es.monitor, None) # None
          THEN es2' = r2.self /\ ret2' = r2.ret
          ELSE UNCHANGED <<es2, ret2>>
       /\ epoch' = e
       /\ measured_values' = mv
       /\ calls' = calls + 1
       /\ UNCHANGED <<handler, handler_ret, args>>

NextNeutral ==
    \E e \in {x \in Epochs : x > 0} : \E mv \in Dicts({es.monitor}) : CheckNeutral(e, mv)

SpecNeutral == InitNeutral /\ [][NextNeutral]_vars

\* the latest call returned a decision
Returned == ret \in {"True", "False"}

\* the monitored metric in the arguments of the latest call
LastValue == get(measured_values, es.monitor, None)

\* C1: calls without the monitored metric, inserted anywhere, do not change
\* the decision of any call that carries it: the decision of es equals the
\* decision of es2 on every call both received.
C1_MissingValueNeutral ==
    (Returned /\ LastValue # None) => ret = ret2

----------------------------------------------------------------------------
(* Two EarlyStopping objects of one configuration fed side by side: every  *)
(* pair of calls agrees on the monitored metric; the call on es2 may carry *)
(* another epoch, another recognised metric and an unrecognised key.       *)

PairValues == {0, 1, 2}

\* the monitored part of the arguments: absent, None or a value
PairMonitored(monitor) == {<< >>} \cup {[k \in {monitor} |-> v] : v \in PairValues \cup {None}}

\* what the call on es2 may carry besides: nothing, or a recognised metric
\* other than the monitor together with the unrecognised key 'valid_loss'
PairExtras(monitor) ==
    {<< >>,
     [k \in {IF monitor = "val_loss" THEN "train_acc" ELSE "val_loss", "valid_loss"} |-> 1]}

PairEpochs == {1, 2}

InitPair ==
    /\ es \in {EarlyStopping("val_loss", 0, 1, 1),
               EarlyStopping("train_acc", 2, 1, 1),
               EarlyStopping("val_loss", 2, 1, 0)}
    /\ es2 = es
    /\ epoch = 0
    /\ measured_values = << >>
    /\ ret = "none"
    /\ ret2 = "none"
    /\ calls = 0
    /\ handler = NoObject
    /\ handler_ret = "none"
    /\ args = NoObject

\* the caller invokes es.check_early_stop(1, mv) and
\* es2.check_early_stop(e2, mv2)
CheckPair(mv, e2, mv2) ==
    LET r == check_early_stop(es, 1, mv)
        r2 == check_early_stop(es2, e2, mv2)
    IN /\ calls < MaxPairChecks
       /\ es' = r.self
       /\ ret' = r.ret
       /\ es2' = r2.self
       /\ ret2' = r2.ret
       /\ epoch' = 1
       /\ measured_values' = mv
       /\ args' = [kind |-> "check_early_stop", epoch |-> e2, measured_values |-> mv2]
       /\ calls' = calls + 1
       /\ UNCHANGED <<handler, handler_ret>>

NextPair ==
    \E mv \in PairMonitored(es.monitor) : \E e2 \in PairEpochs :
        \E x \in PairExtras(es.monitor) : CheckPair(mv, e2, mv @@ x)

SpecPair == InitPair /\ [][NextPair]_vars

\* C21: two EarlyStopping objects of one configuration, fed calls that agree
\* on the monitored metric and differ in the positive epoch and in the other
\* metrics and unrecognised keys, return the same decision on every call and
\* have equal index_best after every call.
C21_MonitoredOnly ==
    /\ ret = ret2
    /\ es.index_best = es2.index_best

\* a patience stop of both objects after calls that differed in the epoch and
\* in the other keys
C21_Witness ==
    /\ ret = "True" /\ ret2 = "True"
    /\ es.index_best = 0
    /\ es.threshold = 0
    /\ "valid_loss" \in DOMAIN args.measured_values
    /\ \E i \in 1..Len(es.history) :
          /\ es2.history[i].epoch # es.history[i].epoch
          /\ \E k \in Monitors : es2.history[i][k] # es.history[i][k]

----------------------------------------------------------------------------
(* One handler of any class and its caller. *)

SeqKeys == {"val_loss", "train_acc"}

SeqDicts == UNION {[S -> {0, 1}] : S \in SUBSET SeqKeys}

SeqEpochs == {0, 1}

SeqLeaves ==
    {NoopEarlyStopping, EarlyStopping("val_loss", 0, 1, 1), EarlyStopping("train_acc", 0, 1, 0)}

\* composites of up to two leaves
FlatHandlers ==
    {SequentialEarlyStopping(<< >>)}
    \cup {SequentialEarlyStopping(<<x>>) : x \in SeqLeaves}
    \cup {SequentialEarlyStopping(<<x, y>>) : x \in SeqLeaves, y \in SeqLeaves}

\* composites with a composite among their children
NestedHandlers ==
    {SequentialEarlyStopping(<<f>>) : f \in FlatHandlers}
    \cup {SequentialEarlyStopping(<<x, SequentialEarlyStopping(<<y>>)>>) :
             x \in SeqLeaves, y \in SeqLeaves}

Handlers == SeqLeaves \cup FlatHandlers \cup NestedHandlers

InitSeq ==
    /\ handler \in Handlers
    /\ handler_ret = "none"
    /\ epoch = 0
    /\ measured_values = << >>
    /\ calls = 0
    /\ es = NoObject
    /\ ret = "none"
    /\ es2 = NoObject
    /\ ret2 = "none"
    /\ args = NoObject

\* the caller invokes handler.check_early_stop(e, mv)
CheckHandler(e, mv) ==
    LET r == handler_check_early_stop(handler, e, mv)
    IN /\ calls < MaxSeqChecks
       /\ handler' = r.self
       /\ handler_ret' = r.ret
       /\ epoch' = e
       /\ measured_values' = mv
       /\ calls' = IF r.ret = "ValueError" THEN calls ELSE calls + 1
       /\ UNCHANGED <<es, ret, es2, ret2, args>>

NextSeq == \E e \in SeqEpochs : \E mv \in SeqDicts : CheckHandler(e, mv)

SpecSeq == InitSeq /\ [][NextSeq]_vars

RECURSIVE HasEarlyStopping(_)
\* some EarlyStopping object is the handler or among its descendants
HasEarlyStopping(h) ==
    CASE h.kind = "EarlyStopping" -> TRUE
      [] h.kind = "NoopEarlyStopping" -> FALSE
      [] h.kind = "SequentialEarlyStopping" ->
            \E i \in 1..Len(h.early_stopping_handlers) :
                HasEarlyStopping(h.early_stopping_handlers[i])

\* C6 as stated: for every handler class, a call with epoch <= 0 raises and
\* changes no history.
C6_AllHandlersRaise ==
    [][epoch' <= 0 => (handler_ret' = "ValueError" /\ handler' = handler)]_vars

\* C6 amended: a call with epoch <= 0 changes no history; it raises when the
\* handler is or contains an EarlyStopping object and returns false otherwise.
C6_InvalidEpochByClass ==
    [][epoch' <= 0 =>
          /\ handler' = handler
          /\ handler_ret' = IF HasEarlyStopping(handler) THEN "ValueError" ELSE "False"]_vars

C6_Witness ==
    /\ handler_ret = "ValueError"
    /\ epoch <= 0
    /\ handler.kind = "SequentialEarlyStopping"
    /\ Len(handler.early_stopping_handlers) = 2
    /\ handler.early_stopping_handlers[1].kind = "NoopEarlyStopping"
    /\ handler.early_stopping_handlers[2].kind = "EarlyStopping"
    /\ Len(handler.early_stopping_handlers[2].history) >= 1

\* the handler is a composite
IsSequential == handler.kind = "SequentialEarlyStopping"

\* the children of the composite
Children(h) == h.early_stopping_handlers

\* what child i of the composite h does when it is checked with (e, mv)
ChildCheck(h, i, e, mv) == handler_check_early_stop(Children(h)[i], e, mv)

\* C12: a composite check that returns, returns true iff the check of at
\* least one child returned true for the same arguments; without children it
\* returns false.
C12_LogicalOr ==
    [][(IsSequential /\ handler_ret' \in {"True", "False"}) =>
          handler_ret' =
              IF \E i \in 1..Len(Children(handler)) :
                     ChildCheck(handler, i, epoch', measured_values').ret = "True"
              THEN "True" ELSE "False"]_vars

C12_Witness ==
    /\ IsSequential
    /\ handler_ret = "True"
    /\ epoch > 0
    /\ calls = 2
    /\ Len(Children(handler)) = 2
    /\ Children(handler)[1].kind = "EarlyStopping"
    /\ Children(handler)[1].index_best = 1
    /\ Children(handler)[2].kind = "SequentialEarlyStopping"
    /\ Len(Children(Children(handler)[2])) = 1
    /\ Children(Children(handler)[2])[1].kind = "EarlyStopping"
    /\ Children(Children(handler)[2])[1].threshold > 0
    /\ get(measured_values, "val_loss", None) = 0

C15_NoopNeverStops ==
    [][handler.kind = "NoopEarlyStopping" =>
          (handler_ret' = "False" /\ handler' = handler)]_vars

C15_Witness ==
    /\ handler.kind = "NoopEarlyStopping"
    /\ handler_ret = "False"
    /\ epoch = 0
    /\ measured_values = << >>
    /\ calls = 2

\* C16: when the check of a child raises, the composite check raises.
C16_ErrorPropagates ==
    [][(IsSequential
        /\ \E i \in 1..Len(Children(handler)) :
               ChildCheck(handler, i, epoch', measured_values').ret = "ValueError") =>
          handler_ret' = "ValueError"]_vars

C16_Witness ==
    /\ IsSequential
    /\ handler_ret = "ValueError"
    /\ Len(Children(handler)) = 2
    /\ Children(handler)[1].kind = "NoopEarlyStopping"
    /\ Children(handler)[2].kind = "SequentialEarlyStopping"
    /\ Len(Children(Children(handler)[2])) = 1
    /\ Children(Children(handler)[2])[1].kind = "EarlyStopping"
    /\ Len(Children(Children(handler)[2])[1].history) = 1

----------------------------------------------------------------------------
(* A composite whose list holds references to EarlyStopping objects.  The  *)
(* objects are es (reference 1) and es2 (reference 2); a list may hold the *)
(* same reference more than once.                                          *)

\* a list entry that refers to the object with the given id
Ref(id) == [kind |-> "Ref", id |-> id]

RECURSIVE ref_check_early_stop(_, _, _, _)
RECURSIVE ref_for_early_stopping_handler(_, _, _, _, _, _)

\* the loop of lines 202-203 from child i on, over the objects `objects`
ref_for_early_stopping_handler(handlers, i, results, objects, e, mv) ==
    IF i > Len(handlers)
    THEN [objects |-> objects, ret |-> any(results)]
    ELSE LET r == ref_check_early_stop(handlers[i], objects, e, mv)
         IN IF r.ret = "ValueError"
            THEN [objects |-> r.objects, ret |-> "ValueError"]
            ELSE ref_for_early_stopping_handler(handlers, i + 1, Append(results, r.ret),
                                                r.objects, e, mv)

\* the method call h.check_early_stop(e, mv), by the class of h
ref_check_early_stop(h, objects, e, mv) ==
    CASE h.kind = "Ref" ->
            LET r == check_early_stop(objects[h.id], e, mv)
            IN [objects |-> [objects EXCEPT ![h.id] = r.self], ret |-> r.ret]
      [] h.kind = "NoopEarlyStopping" -> [objects |-> objects, ret |-> "False"]
      [] h.kind = "SequentialEarlyStopping" ->
            ref_for_early_stopping_handler(h.early_stopping_handlers, 1, << >>, objects, e, mv)

RefHandlers ==
    {SequentialEarlyStopping(<<Ref(1), Ref(2)>>),
     SequentialEarlyStopping(<<NoopEarlyStopping, Ref(1), Ref(2)>>),
     SequentialEarlyStopping(<<Ref(1), SequentialEarlyStopping(<<Ref(2)>>)>>),
     SequentialEarlyStopping(<<SequentialEarlyStopping(<<NoopEarlyStopping, Ref(2)>>), Ref(1)>>),
     SequentialEarlyStopping(<<Ref(1), Ref(1), Ref(2)>>),
     SequentialEarlyStopping(<<Ref(1), SequentialEarlyStopping(<<Ref(1)>>), Ref(2)>>)}

RefEpochs == {0, 1, 2}

RefDicts == {<< >>, [k \in SeqKeys |-> 0], [k \in SeqKeys |-> 1]}

InitRef ==
    /\ handler \in RefHandlers
    /\ es = EarlyStopping("val_loss", 0, 1, 1)
    /\ es2 = EarlyStopping("train_acc", 0, 1, 0)
    /\ handler_ret = "none"
    /\ epoch = 0
    /\ measured_values = << >>
    /\ calls = 0
    /\ ret = "none"
    /\ ret2 = "none"
    /\ args = NoObject

\* the caller invokes handler.check_early_stop(e, mv); the calls that return
\* are bounded
CheckRef(e, mv) ==
    LET r == ref_check_early_stop(handler, <<es, es2>>, e, mv)
    IN /\ calls < MaxSeqChecks \/ r.ret = "ValueError"
       /\ es' = r.objects[1]
       /\ es2' = r.objects[2]
       /\ handler_ret' = r.ret
       /\ epoch' = e
       /\ measured_values' = mv
       /\ calls' = IF r.ret = "ValueError" THEN calls ELSE calls + 1
       /\ UNCHANGED <<handler, ret, ret2, args>>

NextRef == \E e \in RefEpochs : \E mv \in RefDicts : CheckRef(e, mv)

SpecRef == InitRef /\ [][NextRef]_vars

RECURSIVE RefIds(_)
\* the references in the handler and its descendants, in list order
RefIds(h) ==
    CASE h.kind = "Ref" -> <<h.id>>
      [] h.kind = "NoopEarlyStopping" -> << >>
      [] h.kind = "SequentialEarlyStopping" ->
            LET RECURSIVE concat(_)
                concat(i) == IF i > Len(h.early_stopping_handlers) THEN << >>
                             ELSE RefIds(h.early_stopping_handlers[i]) \o concat(i + 1)
            IN concat(1)

\* no object is listed twice
DistinctChildren(h) ==
    \A i, j \in 1..Len(RefIds(h)) : RefIds(h)[i] = RefIds(h)[j] => i = j

\* the epoch column of a history
EpochColumn(history) == [i \in 1..Len(history) |-> history[i].epoch]

\* the histories of the children are aligned after the step and a call that
\* raised changed none of them
HistoriesAligned ==
    /\ EpochColumn(es'.history) = EpochColumn(es2'.history)
    /\ (handler_ret' = "ValueError" => (es' = es /\ es2' = es2))

\* C22 as stated: after every call on the composite all its EarlyStopping
\* children have histories of one length with one sequence of epoch values,
\* and a call that raises changes no history.
C22_ChildHistoriesAligned == [][HistoriesAligned]_vars

\* C22 amended: the same, for a composite that lists no EarlyStopping object
\* twice among its direct and nested children.
C22_DistinctChildrenAligned == [][DistinctChildren(handler) => HistoriesAligned]_vars

\* a raising call on a composite with a direct and a nested EarlyStopping
\* child, after two calls with different epochs
C22_Witness ==
    /\ handler = SequentialEarlyStopping(<<Ref(1), SequentialEarlyStopping(<<Ref(2)>>)>>)
    /\ DistinctChildren(handler)
    /\ handler_ret = "ValueError"
    /\ EpochColumn(es.history) = <<2, 1>>
    /\ EpochColumn(es2.history) = <<2, 1>>

----------------------------------------------------------------------------
(* Properties of one EarlyStopping object (specification Spec).  The state *)
(* holds the arguments and the outcome of the latest call.                 *)

\* the positions (1-based) of the history rows that carry the monitored metric
PresentRows(s) == {i \in 1..Len(s.history) : s.history[i][s.monitor] # NaN}

\* a is more favourable than b for the monitor
Better(monitor, a, b) == IF contains_acc(monitor) THEN a > b ELSE a < b

\* v lies strictly beyond the threshold in the favourable direction
Beyond(s, v) == Better(s.monitor, v, s.threshold)

\* rows strictly after the row of index_best that carry the monitored metric
PresentSinceBest(s) == Cardinality({i \in PresentRows(s) : i - 1 > s.index_best})

\* C2: whenever some history row carries the monitored metric, index_best is
\* the index of a row that carries it and no such row has a better value.
C2_IndexBestIsBest ==
    PresentRows(es) # {} =>
        /\ es.index_best + 1 \in PresentRows(es)
        /\ \A i \in PresentRows(es) :
              ~Better(es.monitor, es.history[i][es.monitor],
                      es.history[es.index_best + 1][es.monitor])

\* C3: once index_best is >= 0, a call leaves it unchanged or moves it to a
\* larger index; it never decreases and never returns to -1.
C3_IndexBestMonotone ==
    [][es.index_best >= 0 => es'.index_best >= es.index_best]_vars

C3_Witness ==
    /\ es.index_best >= 1
    /\ Len(es.history) > es.index_best + 1
    /\ es.history[Len(es.history)][es.monitor] # NaN

\* C4: the history is empty at construction and every call that does not
\* raise appends exactly one row: its length is the number of such calls.
C4_HistoryLength == Len(es.history) = calls

C4_Witness ==
    /\ calls >= 3
    /\ ret = "True"
    /\ \E i \in 1..Len(es.history) : i \notin PresentRows(es)

\* C5: a call with epoch <= 0 raises and leaves history and index_best as
\* they were.
C5_InvalidEpochRaises ==
    [][epoch' <= 0 =>
          /\ ret' = "ValueError"
          /\ es'.history = es.history
          /\ es'.index_best = es.index_best]_vars

C5_Witness ==
    /\ ret = "ValueError"
    /\ epoch <= 0
    /\ LastValue # None
    /\ es.index_best >= 1

\* C7: with threshold > 0, a call whose monitored value lies strictly beyond
\* the threshold returns true; a value equal to the threshold returns true
\* only when the patience is exceeded.
C7_ThresholdRule ==
    Returned /\ LastValue # None =>
        /\ (es.threshold > 0 /\ Beyond(es, LastValue)) => ret = "True"
        /\ (LastValue = es.threshold /\ ret = "True") =>
               (Len(es.history) > 1 /\ PresentSinceBest(es) > es.patience)

C7_Witness ==
    /\ ret = "True"
    /\ es.threshold > 0
    /\ LastValue # None
    /\ Beyond(es, LastValue)
    /\ es.index_best >= 0
    /\ PresentSinceBest(es) <= es.patience

\* C8: a call (epoch > 0) without the monitored metric, or with None for it,
\* returns false and leaves index_best and the count of present rows after
\* the best row unchanged.
C8_MissingValue ==
    [][(epoch' > 0 /\ get(measured_values', es.monitor, None) = None) =>
          /\ ret' = "False"
          /\ es'.index_best = es.index_best
          /\ PresentSinceBest(es') = PresentSinceBest(es)]_vars

C8_Witness ==
    /\ ret = "False"
    /\ epoch > 0
    /\ LastValue = None
    /\ es.index_best >= 0
    /\ PresentSinceBest(es) > es.patience

\* the value of the monitored metric that the index `index_best` of the state
\* before the call selects in the history after the call
ValueAtBest(before, after) == item(after.history, before.index_best)[before.monitor]

\* the improvement rule as the specification states it
Improves(before, after, v) ==
    LET delta == v - ValueAtBest(before, after)
    IN /\ Better(before.monitor, v, ValueAtBest(before, after))
       /\ (before.min_delta = 0 \/ abs(delta) >= before.min_delta)

\* a call with a present value that is not the first check and does not
\* trigger the threshold rule
RuleCase(before, e, v) ==
    /\ e > 0
    /\ v # None
    /\ Len(before.history) >= 1
    /\ ~(before.threshold > 0 /\ Beyond(before, v))

\* C9: in such a call that is no improvement, the call returns true iff more
\* than `patience` rows after the best row, the new row included, carry the
\* monitored metric; index_best is unchanged.
C9_PatienceRule ==
    [][LET v == get(measured_values', es.monitor, None)
       IN (RuleCase(es, epoch', v) /\ ~Improves(es, es', v)) =>
             /\ ret' = "True" <=> PresentSinceBest(es') > es.patience
             /\ es'.index_best = es.index_best]_vars

C9_Witness ==
    /\ ret = "True"
    /\ LastValue # None
    /\ ~(es.threshold > 0 /\ Beyond(es, LastValue))
    /\ es.index_best >= 0
    /\ \E i \in 1..Len(es.history) : i - 1 > es.index_best /\ i \notin PresentRows(es)

\* C10: in such a call the value is an improvement exactly when the change
\* from the value at index_best has the favourable sign and is at least
\* min_delta (or min_delta is 0); then index_best becomes the index of the new
\* row and the call returns false.
C10_ImprovementRule ==
    [][LET v == get(measured_values', es.monitor, None)
       IN RuleCase(es, epoch', v) =>
             /\ Improves(es, es', v) <=> es'.index_best = Len(es'.history) - 1
             /\ Improves(es, es', v) => ret' = "False"]_vars

C10_Witness ==
    /\ ret = "False"
    /\ es.min_delta > 0
    /\ Len(es.history) >= 3
    /\ es.index_best = Len(es.history) - 1
    /\ \E i \in PresentRows(es) :
          /\ i > 1
          /\ i < Len(es.history)
          /\ 1 \in PresentRows(es)
          /\ Better(es.monitor, es.history[i][es.monitor], es.history[1][es.monitor])

\* C17: the first check of an object returns true iff threshold > 0 and the
\* monitored value is present and strictly beyond the threshold; when the
\* value is present and the call returns false, index_best becomes 0.
C17_FirstCheck ==
    (Returned /\ Len(es.history) = 1) =>
        /\ ret = "True" <=>
               (es.threshold > 0 /\ LastValue # None /\ Beyond(es, LastValue))
        /\ (LastValue # None /\ ret = "False") => es.index_best = 0

C17_Witness ==
    /\ Returned
    /\ Len(es.history) = 1
    /\ ret = "False"
    /\ es.threshold > 0
    /\ LastValue = es.threshold
    /\ es.index_best = 0

\* C18: as soon as the history has a row that carries the monitored metric,
\* index_best is a valid index into the history.
C18_IndexBestValid ==
    PresentRows(es) # {} => (0 <= es.index_best /\ es.index_best < Len(es.history))

\* every row carries the monitored metric and no row after the first is an
\* improvement over the first
NoImprovementOnFirst(s) ==
    /\ Len(s.history) >= 1
    /\ PresentRows(s) = 1..Len(s.history)
    /\ \A i \in 2..Len(s.history) :
          ~(/\ Better(s.monitor, s.history[i][s.monitor], s.history[1][s.monitor])
            /\ (s.min_delta = 0
                \/ abs(s.history[i][s.monitor] - s.history[1][s.monitor]) >= s.min_delta))

\* C19: with threshold = 0, when every check carries the monitored metric and
\* nothing improves on the first value, checks 1 to patience + 1 return false
\* and check patience + 2 returns true.
C19_PatienceOffByOne ==
    (Returned /\ es.threshold = 0 /\ NoImprovementOnFirst(es)) =>
        /\ Len(es.history) <= es.patience + 1 => ret = "False"
        /\ Len(es.history) = es.patience + 2 => ret = "True"

C19_Witness ==
    /\ Returned
    /\ es.threshold = 0
    /\ NoImprovementOnFirst(es)
    /\ Len(es.history) = es.patience + 2
    /\ ret = "True"
    /\ \E i \in 2..Len(es.history) :
          Better(es.monitor, es.history[i][es.monitor], es.history[1][es.monitor])

\* C20: whenever index_best >= 0, the history row at index_best carries the
\* monitored metric.
C20_BestRowPresent ==
    es.index_best >= 0 => es.index_best + 1 \in PresentRows(es)

C20_Witness ==
    /\ es.index_best >= 2
    /\ \E i \in 1..Len(es.history) : i - 1 < es.index_best /\ i \notin PresentRows(es)
    /\ \E i \in 1..Len(es.history) : i - 1 > es.index_best /\ i \notin PresentRows(es)

----------------------------------------------------------------------------
(* One EarlyStopping object that is checked on after it has stopped. *)

PersistValues == {0, 1, 2}

PersistEpochs == {0, 1}

PersistDicts(monitor) == {<< >>} \cup {[k \in {monitor} |-> v] : v \in PersistValues}

\* the caller invokes es.check_early_stop(e, mv)
CheckPersist(e, mv) ==
    LET r == check_early_stop(es, e, mv)
    IN /\ Len(es.history) < MaxPersistChecks
       /\ es' = r.self
       /\ ret' = r.ret
       /\ epoch' = e
       /\ measured_values' = mv
       /\ calls' = IF r.ret = "ValueError" THEN calls ELSE calls + 1
       /\ UNCHANGED <<es2, ret2, handler, handler_ret, args>>

NextPersist == \E e \in PersistEpochs : \E mv \in PersistDicts(es.monitor) : CheckPersist(e, mv)

SpecPersist == Init /\ [][NextPersist]_vars

\* more than `patience` rows after the row of index_best carry the monitored
\* metric
PatienceExceeded(s) == PresentSinceBest(s) > s.patience

\* C23: a call that returns true without the threshold rule leaves the
\* patience exceeded; while it is exceeded, a call without the monitored
\* metric returns false and leaves it exceeded and index_best unchanged, and
\* a call with a value that is no improvement over the value at index_best
\* returns true and leaves it exceeded.
C23_PatienceStopPersists ==
    [][LET v == get(measured_values', es.monitor, None)
       IN /\ (ret' = "True" /\ ~(es.threshold > 0 /\ Beyond(es, v))) => PatienceExceeded(es')
          /\ (PatienceExceeded(es) /\ epoch' > 0) =>
                /\ v = None =>
                      /\ ret' = "False"
                      /\ PatienceExceeded(es')
                      /\ es'.index_best = es.index_best
                /\ (v # None /\ ~Improves(es, es', v)) =>
                      /\ ret' = "True"
                      /\ PatienceExceeded(es')]_vars

\* a patience stop at the third check, a check without the monitored metric
\* and a fifth check that returns true again
C23_Witness ==
    /\ es.threshold = 0
    /\ es.patience = 1
    /\ es.index_best = 0
    /\ Len(es.history) = 5
    /\ PresentRows(es) = {1, 2, 3, 5}
    /\ LastValue # None
    /\ ret = "True"

====
